---- MODULE Spec2Model ----
(***************************************************************************)
(* Session orchestration of the browser client: the Redux store (the       *)
(* currentUser, login, logout, logoutAll and oauth2 slices and the slices  *)
(* of the signup, verify-account and password-reset flows), the async      *)
(* thunks with their HTTP requests in flight, the server-side cookie       *)
(* session, and the React components that start the thunks and read the    *)
(* store (App, ProtectedRoute, LoginPage, LoginForm, DashboardPage, the    *)
(* two logout buttons and the forms of the other flows).                   *)
(*                                                                         *)
(* JavaScript runs one task at a time: an action of this model is one      *)
(* task (an event handler, an effect run, or the continuation of a thunk   *)
(* after an awaited response) with every dispatch it makes.                *)
(***************************************************************************)
EXTENDS Integers, Sequences, FiniteSets, TLC

(* ------------------------------ bounds -------------------------------- *)
\* thunk instances dispatched in one run of the application
MaxThunks == 3
\* accounts known to the server
NumUsers == 1
\* thunk instances dispatched in one run when liveness is checked
MaxLiveThunks == 2

\* longest password typed when the password meter is checked
MaxPasswordLen == 9

(* --------------------------- program values --------------------------- *)
Null == "null"
NoUser == 0
Users == 1..NumUsers
\* credentials the login form can submit: those of a user, or wrong ones
BadCredentials == NoUser
Credentials == Users \cup {BadCredentials}

\* HTTP outcomes seen by axios: 200, an error status with an error payload,
\* or no response at all
HttpOk == "200"
HttpError == "4xx"
HttpNoResponse == "no response"

FetchFailedMessage == "Failed to fetch current user"
LoginFailedMessage == "Login failed"
LogoutFailedMessage == "Logout failed"
LogoutAllFailedMessage == "Logout all devices failed"
SignupFailedMessage == "Signup failed"
VerifyAccountFailedMessage == "Account verification failed"
PasswordResetRequestFailedMessage == "Password reset request failed"
PasswordResetConfirmFailedMessage == "Password reset confirmation failed"
ServerErrorMessage == "server error payload"
ServerFlowMessage == "server message"
ServerLogoutMessage == "Logged out"

VARIABLES
    currentUser,   \* state.currentUser  {isAuthenticated, loading, error}
    login,         \* state.login        {loading, error, user, isAuthenticated}
    logout,        \* state.logout       {loading, error, successMessage}
    logoutAll,     \* state.logoutAll    {loading, error, successMessage}
    oauth2,        \* state.oauth2       {loading, error, isAuthenticated, user}
    session,       \* the server's cookie session: a user, or NoUser
    th,            \* the thunks that have not settled yet
    dispatched,    \* number of thunks the components have dispatched so far
    issued,        \* number of fetchCurrentUser thunks dispatched so far
    micro,         \* id of the thunk whose continuation is the next microtask, or 0
    boot,          \* start-up position: "render", "mount", "strict", "run"
    route,         \* the router's location
    screen,        \* what React has mounted for the route
    guardImpl,     \* which of the two ProtectedRoute sources is built
    last,          \* the action the store reduced last
    signup,                \* state.signup        {loading, error, successMessage}
    verifyAccount,         \* state.verifyAccount        (same shape)
    passwordResetRequest,  \* state.passwordResetRequest (same shape)
    passwordResetConfirm,  \* state.passwordResetConfirm (same shape)
    localError,            \* SignupForm's client-side validation error
    password,              \* SignupForm's password field
    passwordStrength       \* SignupForm's password meter

vars == <<currentUser, login, logout, logoutAll, oauth2, session, th,
          dispatched, issued, micro, boot, route, screen, guardImpl, last,
          signup, verifyAccount, passwordResetRequest, passwordResetConfirm,
          localError, password, passwordStrength>>

slices == <<currentUser, login, logout, logoutAll, oauth2>>

\* the slices of the flows that have a page of their own
flowSlices == <<signup, verifyAccount, passwordResetRequest, passwordResetConfirm>>

(* --------------------------- initial slices --------------------------- *)
currentUserInitialState ==
    [isAuthenticated |-> Null, loading |-> FALSE, error |-> Null]

loginInitialState ==
    [loading |-> FALSE, error |-> Null, user |-> NoUser, isAuthenticated |-> FALSE]

logoutInitialState ==
    [loading |-> FALSE, error |-> Null, successMessage |-> Null]

logoutAllInitialState ==
    [loading |-> FALSE, error |-> Null, successMessage |-> Null]

oauth2InitialState ==
    [loading |-> FALSE, error |-> Null, isAuthenticated |-> FALSE, user |-> NoUser]

\* a boolean payload stored in the field typed boolean | null
Tri(b) == IF b THEN "true" ELSE "false"

(* ------------------------- currentUser reducers ----------------------- *)
\* a pending reducer that forgets the status
currentUser_pending_resetting(s) ==
    [s EXCEPT !.loading = TRUE, !.error = Null, !.isAuthenticated = Null]

currentUser_pending(s) ==
    [s EXCEPT !.loading = TRUE, !.error = Null]

\* a fulfilled reducer that leaves the loading flag as it was
currentUser_fulfilled_keepingLoading(s, payload) ==
    [s EXCEPT !.isAuthenticated = Tri(payload)]

currentUser_fulfilled(s, payload) ==
    [s EXCEPT !.loading = FALSE, !.isAuthenticated = Tri(payload)]

\* a rejected reducer that leaves isAuthenticated as it was
currentUser_rejected_keepingStatus(s) ==
    [s EXCEPT !.loading = FALSE, !.error = FetchFailedMessage]

currentUser_rejected(s) ==
    [s EXCEPT !.loading = FALSE, !.isAuthenticated = "false",
              !.error = FetchFailedMessage]

(* ---------------------------- login reducers -------------------------- *)
clearLoginState(s) ==
    [s EXCEPT !.loading = FALSE, !.error = Null, !.user = NoUser,
              !.isAuthenticated = FALSE]

login_pending(s) ==
    [s EXCEPT !.loading = TRUE, !.error = Null]

login_fulfilled(s, payload) ==
    [s EXCEPT !.loading = FALSE, !.user = payload, !.isAuthenticated = TRUE,
              !.error = Null]

login_rejected(s, payload) ==
    [s EXCEPT !.loading = FALSE, !.error = payload, !.isAuthenticated = FALSE]

login_fetchFulfilled(s, payload) ==
    [s EXCEPT !.isAuthenticated = payload]

login_fetchRejected(s) ==
    [s EXCEPT !.isAuthenticated = FALSE]

(* ------------------- logout and logoutAll reducers -------------------- *)
clearLogoutState(s) ==
    [s EXCEPT !.loading = FALSE, !.error = Null, !.successMessage = Null]

logout_pending(s) ==
    [s EXCEPT !.loading = TRUE, !.error = Null, !.successMessage = Null]

logout_fulfilled(s, message) ==
    [s EXCEPT !.loading = FALSE, !.successMessage = message, !.error = Null]

logout_rejected(s, payload) ==
    [s EXCEPT !.loading = FALSE, !.error = payload, !.successMessage = Null]

clearLogoutAllState(s) ==
    [s EXCEPT !.loading = FALSE, !.error = Null, !.successMessage = Null]

logoutAll_pending(s) ==
    [s EXCEPT !.loading = TRUE, !.error = Null, !.successMessage = Null]

\* a fulfilled reducer that keeps the error of an earlier attempt
logoutAll_fulfilled_keepingError(s, message) ==
    [s EXCEPT !.loading = FALSE, !.successMessage = message]

logoutAll_fulfilled(s, message) ==
    [s EXCEPT !.loading = FALSE, !.successMessage = message, !.error = Null]

logoutAll_rejected(s, payload) ==
    [s EXCEPT !.loading = FALSE, !.error = payload, !.successMessage = Null]

(* ----- signup, verifyAccount, passwordResetRequest/Confirm reducers --- *)
\* the four slices have the same state and the same reducers
flowInitialState == [loading |-> FALSE, error |-> Null, successMessage |-> Null]

\* a clear reducer that keeps the error
clearFlowState_keepingError(s) ==
    [s EXCEPT !.loading = FALSE, !.successMessage = Null]

clearFlowState(s) ==
    [s EXCEPT !.loading = FALSE, !.error = Null, !.successMessage = Null]

flow_pending(s) ==
    [s EXCEPT !.loading = TRUE, !.error = Null, !.successMessage = Null]

flow_fulfilled(s, message) ==
    [s EXCEPT !.loading = FALSE, !.successMessage = message]

\* a rejected reducer that drops the error
flow_rejected_withoutError(s, payload) ==
    [s EXCEPT !.loading = FALSE]

flow_rejected(s, payload) ==
    [s EXCEPT !.loading = FALSE, !.error = payload]

(* ---------------------------- oauth2 reducers ------------------------- *)
clearUserSession(s) ==
    [s EXCEPT !.loading = FALSE, !.error = Null, !.isAuthenticated = FALSE,
              !.user = NoUser]

oauth2_pending(s) ==
    [s EXCEPT !.loading = TRUE, !.error = Null]

oauth2_fulfilled(s, payload) ==
    [s EXCEPT !.loading = FALSE, !.isAuthenticated = payload]

oauth2_rejected(s) ==
    [s EXCEPT !.loading = FALSE, !.isAuthenticated = FALSE]

(* ----------------------------- route guard ---------------------------- *)
\* a guard without ProtectedRoute.tsx's loading branch
renderProtectedContent_withoutLoading(cu) ==
    IF cu.isAuthenticated # "true" THEN "redirect"
    ELSE "children"

\* ProtectedRoute.tsx: loading, then !isAuthenticated (null is falsy)
renderProtectedContent(cu) ==
    IF cu.loading THEN "loader"
    ELSE IF cu.isAuthenticated # "true" THEN "redirect"
    ELSE "children"

\* the null-aware ProtectedRoute
renderProtectedContentNullAware(cu) ==
    IF cu.loading \/ cu.isAuthenticated = Null THEN "loader"
    ELSE IF cu.isAuthenticated = "false" THEN "redirect"
    ELSE "children"

GuardImpls == {"ProtectedRoute", "ProtectedRouteNullAware"}

ProtectedRoute(cu) ==
    IF guardImpl = "ProtectedRoute" THEN renderProtectedContent(cu)
    ELSE renderProtectedContentNullAware(cu)

\* LoginPage: loading text, redirect to the dashboard, or the login form
LoginPage(o) ==
    IF o.loading THEN "loading"
    ELSE IF o.isAuthenticated THEN "navigate"
    ELSE "form"

(* -------------------------- signup validation ------------------------- *)
\* pwd.length >= 8
MinPasswordLength == 8

\* a password is a sequence of characters; one character stands for each
\* class the rules tell apart: /[A-Z]/, /[0-9]/, the special characters,
\* and any other character
UpperChars == {"A"}
NumberChars == {"1"}
SpecialChars == {"!"}
OtherChars == {"a"}

checkRules(pwd) ==
    [lengthRule |-> Len(pwd) >= MinPasswordLength,
     upperRule |-> \E i \in 1..Len(pwd) : pwd[i] \in UpperChars,
     numberRule |-> \E i \in 1..Len(pwd) : pwd[i] \in NumberChars,
     specialRule |-> \E i \in 1..Len(pwd) : pwd[i] \in SpecialChars]

LengthRuleMessage == "Password must be at least 8 characters long"
UpperRuleMessage == "Password must contain at least one uppercase letter"
NumberRuleMessage == "Password must contain at least one number"
SpecialRuleMessage == "Password must contain at least one special character"
PasswordsDoNotMatchMessage == "Passwords do not match"

\* the message of the first rule that fails, or null
validatePassword(pwd) ==
    LET rules == checkRules(pwd) IN
      IF ~rules.lengthRule THEN LengthRuleMessage
      ELSE IF ~rules.upperRule THEN UpperRuleMessage
      ELSE IF ~rules.numberRule THEN NumberRuleMessage
      ELSE IF ~rules.specialRule THEN SpecialRuleMessage
      ELSE Null

\* evaluatePasswordStrength with "Weak" for at most one passed rule
evaluatePasswordStrength_lenient(pwd) ==
    IF pwd = <<>> THEN ""
    ELSE LET rules == checkRules(pwd)
             passedRules ==
                 Len(SelectSeq(<<rules.lengthRule, rules.upperRule,
                                 rules.numberRule, rules.specialRule>>,
                               LAMBDA b : b)) IN
           IF passedRules <= 1 THEN "Weak"
           ELSE IF passedRules = 3 THEN "Medium"
           ELSE "Strong"

\* evaluatePasswordStrength: "" for the empty password, else the number of
\* rules that pass decides
evaluatePasswordStrength(pwd) ==
    IF pwd = <<>> THEN ""
    ELSE LET rules == checkRules(pwd)
             passedRules ==
                 Len(SelectSeq(<<rules.lengthRule, rules.upperRule,
                                 rules.numberRule, rules.specialRule>>,
                               LAMBDA b : b)) IN
           IF passedRules <= 2 THEN "Weak"
           ELSE IF passedRules = 3 THEN "Medium"
           ELSE "Strong"

\* s followed by other characters up to length n
Pad(s, n) ==
    [i \in 1..(IF Len(s) > n THEN Len(s) ELSE n) |->
        IF i <= Len(s) THEN s[i] ELSE CHOOSE c \in OtherChars : TRUE]

\* the passwords typed into the form: the empty one, one that fails only
\* the length rule, one for each other rule that fails only that rule, and
\* one that passes all four
Passwords ==
    {<<>>, Pad(<<"A", "1", "!">>, MinPasswordLength - 1)} \cup
    {Pad(h, MinPasswordLength) :
        h \in {<<"1", "!">>, <<"A", "!">>, <<"A", "1">>, <<"A", "1", "!">>}}

\* the values typed into the password field: characters of the three
\* character classes, each at most once and in any order, padded with
\* other characters to every length up to MaxPasswordLen
RuleChars == UpperChars \cup NumberChars \cup SpecialChars

Heads ==
    {h \in UNION {[1..n -> RuleChars] : n \in 0..Cardinality(RuleChars)} :
        \A i, j \in DOMAIN h : h[i] = h[j] => i = j}

PasswordInputs == {Pad(h, n) : h \in Heads, n \in 0..MaxPasswordLen}

(* ------------------------- flows with their own page ------------------ *)
\* store keys of the flows
Flows == {"signup", "verifyAccount", "passwordResetRequest",
          "passwordResetConfirm"}

\* App's route of each flow's page
FlowRoute(f) ==
    IF f = "signup" THEN "/signup"
    ELSE IF f = "verifyAccount" THEN "/verify-account"
    ELSE IF f = "passwordResetRequest" THEN "/password-reset-request"
    ELSE "/password-reset-confirm"

\* the thunk of each flow
FlowThunk(f) ==
    IF f = "signup" THEN "signupUser"
    ELSE IF f = "verifyAccount" THEN "verifyAccount"
    ELSE IF f = "passwordResetRequest" THEN "requestPasswordReset"
    ELSE "confirmPasswordReset"

FlowThunks == {FlowThunk(f) : f \in Flows}

FlowOf(kind) == CHOOSE f \in Flows : FlowThunk(f) = kind

FlowFailedMessage(f) ==
    IF f = "signup" THEN SignupFailedMessage
    ELSE IF f = "verifyAccount" THEN VerifyAccountFailedMessage
    ELSE IF f = "passwordResetRequest" THEN PasswordResetRequestFailedMessage
    ELSE PasswordResetConfirmFailedMessage

\* state[f]
Slice(f) ==
    IF f = "signup" THEN signup
    ELSE IF f = "verifyAccount" THEN verifyAccount
    ELSE IF f = "passwordResetRequest" THEN passwordResetRequest
    ELSE passwordResetConfirm

\* the slice reducer of f returns v; the other flows' reducers ignore the action
SetSlice(f, v) ==
    /\ signup' = IF f = "signup" THEN v ELSE signup
    /\ verifyAccount' = IF f = "verifyAccount" THEN v ELSE verifyAccount
    /\ passwordResetRequest' =
          IF f = "passwordResetRequest" THEN v ELSE passwordResetRequest
    /\ passwordResetConfirm' =
          IF f = "passwordResetConfirm" THEN v ELSE passwordResetConfirm

(* ------------------------------- thunks ------------------------------- *)
\* One record per thunk that has not settled.  id is its dispatch number;
\* kind is the thunk; pc is the await it is suspended at: "post" (its
\* POST), "fetch" (GET /auth/me inside fetchCurrentUser, dispatched by App
\* or nested in the thunk), "resume" (the nested fetchCurrentUser has
\* settled and the thunk continues in the next microtask), "me"
\* (loginUser's own GET /auth/me).  net, status, data describe its HTTP
\* request; gen numbers its fetchCurrentUser in dispatch order, fres is
\* that thunk's result.  start is the value of issued when the thunk was
\* dispatched, and voided tells that a logout dispatched after this
\* fetchCurrentUser has completed (both only record history).  password is
\* the password in signupUser's payload, and confirmPassword records what
\* the confirmation field held when the form was submitted.  before
\* records currentUser.isAuthenticated as it was when the thunk's nested
\* fetchCurrentUser settled.
NewThunk(kind, pc, cred, gen) ==
    [id |-> dispatched + 1, kind |-> kind, pc |-> pc, net |-> "sent",
     status |-> HttpNoResponse, data |-> NoUser, cred |-> cred, msg |-> Null,
     gen |-> gen, fres |-> "none", start |-> issued, voided |-> FALSE,
     password |-> <<>>, confirmPassword |-> <<>>, before |-> Null]

\* the record of a dispatched action: its type, and for an action of a
\* thunk whether the thunk's POST had succeeded, whether it is a voided
\* fetchCurrentUser, and the identity it carries
Action(type, posted, voided, user) ==
    [type |-> type, posted |-> posted, voided |-> voided, user |-> user,
     status |-> Null]

NoAction == Action("@@INIT", FALSE, FALSE, NoUser)

InFlight(t) == t.net \in {"sent", "answered"}

\* fetchCurrentUser thunks that have dispatched pending and not yet settled
PendingFetches == {t \in th : t.pc = "fetch"}

\* the thunks with t replaced by u
Replace(t, u) == (th \ {t}) \cup {u}

(* ------------------ dispatching fetchCurrentUser actions -------------- *)
\* the root reducer on currentUser/fetchCurrentUser/pending
fetchCurrentUser_pending(st) ==
    [st EXCEPT !.currentUser = currentUser_pending(st.currentUser),
               !.oauth2 = oauth2_pending(st.oauth2)]

\* the root reducer on currentUser/fetchCurrentUser/fulfilled
fetchCurrentUser_fulfilled(st, payload) ==
    [st EXCEPT !.currentUser = currentUser_fulfilled(st.currentUser, payload),
               !.login = login_fetchFulfilled(st.login, payload),
               !.oauth2 = oauth2_fulfilled(st.oauth2, payload)]

\* the root reducer on currentUser/fetchCurrentUser/rejected
fetchCurrentUser_rejected(st) ==
    [st EXCEPT !.currentUser = currentUser_rejected(st.currentUser),
               !.login = login_fetchRejected(st.login),
               !.oauth2 = oauth2_rejected(st.oauth2)]

Store ==
    [currentUser |-> currentUser, login |-> login, logout |-> logout,
     logoutAll |-> logoutAll, oauth2 |-> oauth2]

SetStore(st) ==
    /\ currentUser' = st.currentUser
    /\ login' = st.login
    /\ logout' = st.logout
    /\ logoutAll' = st.logoutAll
    /\ oauth2' = st.oauth2

\* store.dispatch(action), st being the root reducer's result
Dispatch(st, action) ==
    /\ SetStore(st)
    /\ last' = action

\* the actions of thunk t
Fulfilled(t, user) == Action(t.kind \o "/fulfilled", t.msg # Null, FALSE, user)
\* status is the response that made the thunk reject
Rejected(t, status) ==
    [Action(t.kind \o "/rejected", t.msg # Null, FALSE, NoUser)
        EXCEPT !.status = status]
FetchPending == Action("fetchCurrentUser/pending", FALSE, FALSE, NoUser)
FetchSettled(t, status) ==
    [Action(IF status = HttpOk THEN "fetchCurrentUser/fulfilled"
            ELSE "fetchCurrentUser/rejected", FALSE, t.voided, NoUser)
        EXCEPT !.status = status]

(* ------------------------------ rendering ----------------------------- *)
LogoutSucceeded ==
    logout.successMessage # Null \/ logoutAll.successMessage # Null

\* React has a render, mount or effect to run for the current store
NeedsCommit ==
    \/ /\ route = "/dashboard"
       /\ LET g == ProtectedRoute(currentUser) IN
            \/ g = "loader" /\ screen # "loader"
            \/ g = "redirect"
            \/ g = "children" /\ (screen # "dashboard" \/ LogoutSucceeded)
    \/ /\ route = "/login"
       /\ LET v == LoginPage(oauth2) IN
            \/ screen \notin {"loginLoading", "loginForm"}
            \/ v = "loading" /\ screen # "loginLoading"
            \/ v = "navigate"
            \/ v = "form" /\ (screen # "loginForm" \/ login.isAuthenticated)
    \/ \E f \in Flows :
          /\ route = FlowRoute(f)
          /\ \/ screen # f
             \/ f = "verifyAccount" /\ verifyAccount.successMessage # Null

\* no task is queued ahead of the next event
Quiet == boot = "run" /\ micro = 0 /\ ~NeedsCommit

\* a navigation has been requested and the new route is not rendered yet:
\* that render is a task of its own, so other tasks can run before it
Navigating == screen = "none"

\* a network task can run: no continuation is queued, and React is at rest
\* or waits for the render of a navigation
TaskTurn == boot = "run" /\ micro = 0 /\ (~NeedsCommit \/ Navigating)

Init ==
    /\ currentUser = currentUserInitialState
    /\ login = loginInitialState
    /\ logout = logoutInitialState
    /\ logoutAll = logoutAllInitialState
    /\ oauth2 = oauth2InitialState
    /\ session \in Users \cup {NoUser}
    /\ th = {}
    /\ dispatched = 0
    /\ issued = 0
    /\ micro = 0
    /\ boot = "render"
    /\ route \in {"/dashboard", "/login"} \cup {FlowRoute(f) : f \in Flows}
    /\ screen = "none"
    /\ guardImpl \in GuardImpls
    /\ last = NoAction
    /\ signup = flowInitialState
    /\ verifyAccount = flowInitialState
    /\ passwordResetRequest = flowInitialState
    /\ passwordResetConfirm = flowInitialState
    /\ localError = ""
    /\ password = <<>>
    /\ passwordStrength = ""

(* ------------------------- React render and effects ------------------- *)
\* ProtectedRoute renders for "/" and "/dashboard".  Mounting DashboardPage
\* runs the effects of LogoutButton and LogoutAllButton (navigate to /login
\* on a successMessage) and then DashboardPage's own, which clears both
\* logout slices.
RenderProtectedRoute ==
    /\ route = "/dashboard"
    /\ LET g == ProtectedRoute(currentUser) IN
         \/ /\ g = "loader"
            /\ screen # "loader"
            /\ screen' = "loader"
            /\ UNCHANGED <<route, logout, logoutAll, last>>
         \/ /\ g = "redirect"
            /\ route' = "/login"
            /\ screen' = "none"
            /\ UNCHANGED <<logout, logoutAll, last>>
         \/ /\ g = "children"
            /\ screen # "dashboard"
            /\ logout' = clearLogoutState(logout)
            /\ logoutAll' = clearLogoutAllState(logoutAll)
            /\ last' = Action("logoutAll/clearLogoutAllState", FALSE, FALSE, NoUser)
            /\ IF LogoutSucceeded
                 THEN route' = "/login" /\ screen' = "none"
                 ELSE route' = route /\ screen' = "dashboard"
         \/ /\ g = "children"
            /\ screen = "dashboard"
            /\ LogoutSucceeded
            /\ route' = "/login"
            /\ screen' = "none"
            /\ logout' = logout
            /\ IF logoutAll.successMessage # Null
                 THEN /\ logoutAll' = clearLogoutAllState(logoutAll)
                      /\ last' = Action("logoutAll/clearLogoutAllState",
                                        FALSE, FALSE, NoUser)
                 ELSE UNCHANGED <<logoutAll, last>>
    /\ UNCHANGED <<currentUser, login, oauth2, flowSlices>>

\* LoginPage renders for "/login".  Its mount effect dispatches
\* clearUserSession; LoginForm's effect calls onSuccess (navigate to
\* /dashboard) when login.isAuthenticated.
RenderLoginPage ==
    /\ route = "/login"
    /\ LET v == LoginPage(oauth2)
           mounted == screen \in {"loginLoading", "loginForm"} IN
         \/ /\ ~mounted
            /\ oauth2' = clearUserSession(oauth2)
            /\ last' = Action("oauth2/clearUserSession", FALSE, FALSE, NoUser)
            /\ \/ /\ v = "loading"
                  /\ screen' = "loginLoading"
                  /\ route' = route
               \/ /\ v = "navigate"
                  /\ screen' = "none"
                  /\ route' = "/dashboard"
               \/ /\ v = "form"
                  /\ IF login.isAuthenticated
                       THEN route' = "/dashboard" /\ screen' = "none"
                       ELSE route' = route /\ screen' = "loginForm"
         \/ /\ mounted
            /\ UNCHANGED <<oauth2, last>>
            /\ \/ /\ v = "loading"
                  /\ screen # "loginLoading"
                  /\ screen' = "loginLoading"
                  /\ route' = route
               \/ /\ v = "navigate"
                  /\ screen' = "none"
                  /\ route' = "/dashboard"
               \/ /\ v = "form"
                  /\ screen # "loginForm" \/ login.isAuthenticated
                  /\ IF login.isAuthenticated
                       THEN route' = "/dashboard" /\ screen' = "none"
                       ELSE route' = route /\ screen' = "loginForm"
    /\ UNCHANGED <<currentUser, login, logout, logoutAll, flowSlices>>

\* SignupPage, VerifyAccountPage, PasswordResetRequestPage and
\* PasswordResetConfirmPage render their form.  VerifyAccountButton's effect
\* calls onSuccess (navigate to /login) on a successMessage, and its
\* cleanup dispatches clearVerifyAccountState when it unmounts.
RenderFlowPage ==
    /\ \E f \in Flows :
         /\ route = FlowRoute(f)
         /\ \/ /\ screen # f
               /\ screen' = f
               /\ UNCHANGED <<route, flowSlices, last>>
            \/ /\ screen = f
               /\ f = "verifyAccount"
               /\ verifyAccount.successMessage # Null
               /\ route' = "/login"
               /\ screen' = "none"
               /\ SetSlice(f, clearFlowState(verifyAccount))
               /\ last' = Action("verifyAccount/clearVerifyAccountState",
                                 FALSE, FALSE, NoUser)
    /\ UNCHANGED slices

\* one render and commit, with the effects it runs; the first one is the
\* application's first render, which App's mount effect follows
ReactCommit ==
    /\ boot \in {"render", "run"}
    /\ RenderProtectedRoute \/ RenderLoginPage \/ RenderFlowPage
    /\ boot' = IF boot = "render" THEN "mount" ELSE boot
    /\ UNCHANGED <<session, th, dispatched, issued, micro, guardImpl,
                   localError, password, passwordStrength>>

(* ------------------------------ App effect ---------------------------- *)
\* App's useEffect: the guard variable is local to the run, so every run
\* dispatches fetchCurrentUser("AppUseEffect").  React.StrictMode runs the
\* effect a second time right after the first in a development build.
AppUseEffect ==
    /\ boot \in {"mount", "strict"}
    /\ dispatched < MaxThunks
    /\ Dispatch(fetchCurrentUser_pending(Store), FetchPending)
    /\ th' = th \cup {NewThunk("fetchCurrentUser", "fetch", NoUser, issued + 1)}
    /\ dispatched' = dispatched + 1
    /\ issued' = issued + 1
    /\ boot' = IF boot = "mount" THEN "strict" ELSE "run"
    /\ UNCHANGED <<session, micro, route, screen, guardImpl>>
    /\ UNCHANGED <<flowSlices, localError, password, passwordStrength>>

\* a production build runs the mount effect once
MountDone ==
    /\ boot = "strict"
    /\ boot' = "run"
    /\ UNCHANGED <<slices, session, th, dispatched, issued, micro, route,
                   screen, guardImpl, last>>
    /\ UNCHANGED <<flowSlices, localError, password, passwordStrength>>

(* ----------------------------- user events ---------------------------- *)
\* LoginForm.handleSubmit: dispatch(loginUser({email, password}))
handleSubmit(cred) ==
    /\ Quiet
    /\ screen = "loginForm"
    /\ dispatched < MaxThunks
    /\ login' = login_pending(login)
    /\ last' = Action("loginUser/pending", FALSE, FALSE, NoUser)
    /\ th' = th \cup {NewThunk("loginUser", "post", cred, 0)}
    /\ dispatched' = dispatched + 1
    /\ UNCHANGED <<currentUser, logout, logoutAll, oauth2, session, issued,
                   micro, boot, route, screen, guardImpl>>
    /\ UNCHANGED <<flowSlices, localError, password, passwordStrength>>

\* LoginForm.handleClear: dispatch(clearLoginState())
handleClear ==
    /\ Quiet
    /\ screen = "loginForm"
    /\ login # loginInitialState
    /\ login' = clearLoginState(login)
    /\ last' = Action("login/clearLoginState", FALSE, FALSE, NoUser)
    /\ UNCHANGED <<currentUser, logout, logoutAll, oauth2, session, th,
                   dispatched, issued, micro, boot, route, screen, guardImpl>>
    /\ UNCHANGED <<flowSlices, localError, password, passwordStrength>>

\* LogoutButton.handleLogout; the button is disabled while logout.loading
handleLogout ==
    /\ Quiet
    /\ screen = "dashboard"
    /\ ~logout.loading
    /\ dispatched < MaxThunks
    /\ logout' = logout_pending(logout)
    /\ last' = Action("logoutUser/pending", FALSE, FALSE, NoUser)
    /\ th' = th \cup {NewThunk("logoutUser", "post", NoUser, 0)}
    /\ dispatched' = dispatched + 1
    /\ UNCHANGED <<currentUser, login, logoutAll, oauth2, session, issued,
                   micro, boot, route, screen, guardImpl>>
    /\ UNCHANGED <<flowSlices, localError, password, passwordStrength>>

\* LogoutAllButton.handleLogoutAll; disabled while logoutAll.loading
handleLogoutAll ==
    /\ Quiet
    /\ screen = "dashboard"
    /\ ~logoutAll.loading
    /\ dispatched < MaxThunks
    /\ logoutAll' = logoutAll_pending(logoutAll)
    /\ last' = Action("logoutAllDevices/pending", FALSE, FALSE, NoUser)
    /\ th' = th \cup {NewThunk("logoutAllDevices", "post", NoUser, 0)}
    /\ dispatched' = dispatched + 1
    /\ UNCHANGED <<currentUser, login, logout, oauth2, session, issued,
                   micro, boot, route, screen, guardImpl>>
    /\ UNCHANGED <<flowSlices, localError, password, passwordStrength>>

\* SignupForm.handleSubmit without the two validation steps
SignupForm_handleSubmit_withoutValidation(cred, pwd, confirmPassword) ==
    /\ Quiet
    /\ screen = "signup"
    /\ ~signup.loading
    /\ dispatched < MaxThunks
    /\ localError' = localError
    /\ SetSlice("signup", flow_pending(signup))
    /\ last' = Action("signupUser/pending", FALSE, FALSE, NoUser)
    /\ th' = th \cup {[NewThunk("signupUser", "post", cred, 0)
                          EXCEPT !.password = pwd,
                                 !.confirmPassword = confirmPassword]}
    /\ dispatched' = dispatched + 1
    /\ UNCHANGED <<slices, session, issued, micro, boot, route, screen,
                   guardImpl, password, passwordStrength>>

\* SignupForm.handleSubmit (the submit button is disabled while loading):
\* validate the password rules, then the confirmation, then clear the
\* local error and dispatch(signupUser({name, email, password})).  The
\* two fields are inputs of the submit here; PwdSpec follows the password
\* field itself.
SignupForm_handleSubmit(cred, pwd, confirmPassword) ==
    /\ Quiet
    /\ screen = "signup"
    /\ ~signup.loading
    /\ LET passwordError == validatePassword(pwd) IN
         IF passwordError # Null
           THEN /\ localError' = passwordError
                /\ UNCHANGED <<flowSlices, last, th, dispatched>>
         ELSE IF pwd # confirmPassword
           THEN /\ localError' = PasswordsDoNotMatchMessage
                /\ UNCHANGED <<flowSlices, last, th, dispatched>>
         ELSE /\ dispatched < MaxThunks
              /\ localError' = ""
              /\ SetSlice("signup", flow_pending(signup))
              /\ last' = Action("signupUser/pending", FALSE, FALSE, NoUser)
              /\ th' = th \cup {[NewThunk("signupUser", "post", cred, 0)
                                    EXCEPT !.password = pwd,
                                           !.confirmPassword = confirmPassword]}
              /\ dispatched' = dispatched + 1
    /\ UNCHANGED <<slices, session, issued, micro, boot, route, screen,
                   guardImpl, password, passwordStrength>>

\* handleSubmit of PasswordResetRequestForm and PasswordResetConfirmForm
\* (the submit button is disabled while loading), and
\* VerifyAccountButton.handleVerify (its button is never disabled)
Flow_handleSubmit(f, cred) ==
    /\ Quiet
    /\ screen = f
    /\ f # "signup"
    /\ f # "verifyAccount" => ~Slice(f).loading
    /\ dispatched < MaxThunks
    /\ SetSlice(f, flow_pending(Slice(f)))
    /\ last' = Action(FlowThunk(f) \o "/pending", FALSE, FALSE, NoUser)
    /\ th' = th \cup {NewThunk(FlowThunk(f), "post", cred, 0)}
    /\ dispatched' = dispatched + 1
    /\ UNCHANGED <<slices, session, issued, micro, boot, route, screen,
                   guardImpl, localError, password, passwordStrength>>

\* SignupForm.handlePasswordChange (onChange of the password field):
\* setPassword(value); setPasswordStrength(evaluatePasswordStrength(value))
handlePasswordChange(value) ==
    /\ Quiet
    /\ screen = "signup"
    /\ value # password
    /\ password' = value
    /\ passwordStrength' = evaluatePasswordStrength(value)
    /\ UNCHANGED <<slices, flowSlices, session, th, dispatched, issued,
                   micro, boot, route, screen, guardImpl, last, localError>>

\* handleClear of the three forms: dispatch(clear...State()); SignupForm's
\* also resets its local state
Flow_handleClear(f) ==
    /\ Quiet
    /\ screen = f
    /\ f # "verifyAccount"
    /\ \/ Slice(f) # flowInitialState
       \/ f = "signup" /\ (localError # "" \/ password # <<>>)
    /\ SetSlice(f, clearFlowState(Slice(f)))
    /\ localError' = IF f = "signup" THEN "" ELSE localError
    /\ password' = IF f = "signup" THEN <<>> ELSE password
    /\ passwordStrength' = IF f = "signup" THEN "" ELSE passwordStrength
    /\ last' = Action(f \o "/clear", FALSE, FALSE, NoUser)
    /\ UNCHANGED <<slices, session, th, dispatched, issued, micro, boot,
                   route, screen, guardImpl>>

(* -------------------------------- server ------------------------------ *)
Answered(t, status, data) ==
    [t EXCEPT !.net = "answered", !.status = status, !.data = data]

\* The server handles a request that has reached it.  POST /auth/login
\* with a user's credentials establishes the cookie session; POST
\* /auth/logout and /auth/logout/all end it; GET /auth/me answers with the
\* session's identity.  A request the server refuses gets an error payload.
ServerHandle(t) ==
    /\ TaskTurn
    /\ t.net = "sent"
    /\ \/ /\ t.pc = "post"
          /\ t.kind = "loginUser"
          /\ IF t.cred \in Users
               THEN /\ session' = t.cred
                    /\ th' = Replace(t, Answered(t, HttpOk, t.cred))
               ELSE /\ session' = session
                    /\ th' = Replace(t, Answered(t, HttpError, NoUser))
       \/ /\ t.pc = "post"
          /\ t.kind \in {"logoutUser", "logoutAllDevices"}
          /\ IF session # NoUser
               THEN /\ session' = NoUser
                    /\ th' = Replace(t, Answered(t, HttpOk, NoUser))
               ELSE /\ session' = session
                    /\ th' = Replace(t, Answered(t, HttpError, NoUser))
       \/ /\ t.pc = "post"
          /\ t.kind \in FlowThunks
          /\ session' = session
          /\ th' = Replace(t, Answered(t, IF t.cred \in Users THEN HttpOk
                                          ELSE HttpError, NoUser))
       \/ /\ t.pc \in {"fetch", "me"}
          /\ session' = session
          /\ th' = Replace(t, Answered(t, IF session # NoUser THEN HttpOk
                                          ELSE HttpError, session))
    /\ UNCHANGED <<slices, dispatched, issued, micro, boot, route, screen,
                   guardImpl, last>>
    /\ UNCHANGED <<flowSlices, localError, password, passwordStrength>>

\* error.response?.data?.error || fallback
ErrorMessage(status, fallback) ==
    IF status = HttpError THEN ServerErrorMessage ELSE fallback

FallbackMessage(kind) ==
    IF kind = "loginUser" THEN LoginFailedMessage
    ELSE IF kind = "logoutUser" THEN LogoutFailedMessage
    ELSE LogoutAllFailedMessage

\* the responses axios can hand to the thunk awaiting request t: the
\* server's answer once it has answered, or a network failure at any time
Responses(t) ==
    (IF t.net = "answered" THEN {t.status} ELSE {}) \cup {HttpNoResponse}

\* thunk t awaits its next request (or its nested fetchCurrentUser)
Awaits(t, pc, gen) ==
    [t EXCEPT !.pc = pc, !.net = "sent", !.status = HttpNoResponse,
              !.data = NoUser, !.gen = gen]

(* --------------------------- fetchCurrentUser ------------------------- *)
\* the payload creator of fetchCurrentUser after its await: fulfilled with
\* res.status === 200, or rejectWithValue(false) on any error
fetchCurrentUser(st, status) ==
    IF status = HttpOk THEN fetchCurrentUser_fulfilled(st, status = HttpOk)
    ELSE fetchCurrentUser_rejected(st)

FetchResult(status) ==
    IF status = HttpOk THEN "true" ELSE "rejected"

\* GET /auth/me of a fetchCurrentUser thunk settles.  A thunk dispatched by
\* App is done; a thunk nested in loginUser / logoutUser / logoutAllDevices
\* hands its result to the awaiting thunk, which continues in a microtask.
FetchCurrentUserSettles(t, status) ==
    /\ t.pc = "fetch"
    /\ Dispatch(fetchCurrentUser(Store, status), FetchSettled(t, status))
    /\ IF t.kind = "fetchCurrentUser"
         THEN /\ th' = th \ {t}
              /\ micro' = micro
         ELSE /\ th' = Replace(t, [t EXCEPT !.pc = "resume", !.net = "none",
                                            !.status = status,
                                            !.data = NoUser,
                                            !.fres = FetchResult(status),
                                            !.before =
                                                currentUser.isAuthenticated])
              /\ micro' = t.id
    /\ UNCHANGED <<session, issued>>

(* ------------------------------ loginUser ----------------------------- *)
\* a loginUser whose rejection also marks the session unauthenticated
loginUser_afterLoginApi_writingCurrentUser(t, status) ==
    /\ t.kind = "loginUser"
    /\ t.pc = "post"
    /\ IF status = HttpOk
         THEN /\ Dispatch(fetchCurrentUser_pending(Store), FetchPending)
              /\ th' = Replace(t, Awaits(t, "fetch", issued + 1))
              /\ issued' = issued + 1
         ELSE /\ Dispatch([Store EXCEPT
                    !.login = login_rejected(login,
                                 ErrorMessage(status, LoginFailedMessage)),
                    !.currentUser = currentUser_rejected(currentUser)],
                    Rejected(t, status))
              /\ th' = th \ {t}
              /\ issued' = issued
    /\ UNCHANGED <<session, micro>>

\* loginUser after await loginApi(payload): on success it dispatches
\* fetchCurrentUser("loginUserThunk") and awaits it; on error it rejects
loginUser_afterLoginApi(t, status) ==
    /\ t.kind = "loginUser"
    /\ t.pc = "post"
    /\ IF status = HttpOk
         THEN /\ Dispatch(fetchCurrentUser_pending(Store), FetchPending)
              /\ th' = Replace(t, Awaits(t, "fetch", issued + 1))
              /\ issued' = issued + 1
         ELSE /\ Dispatch([Store EXCEPT !.login =
                    login_rejected(login, ErrorMessage(status, LoginFailedMessage))],
                    Rejected(t, status))
              /\ th' = th \ {t}
              /\ issued' = issued
    /\ UNCHANGED <<session, micro>>

\* loginUser after the nested fetchCurrentUser: unwrap() throws on a
\* rejection and a false result throws "Authentication failed"; otherwise
\* it calls getCurrentUserApi("loginUserThunk")
loginUser_afterFetchCurrentUser(t) ==
    /\ t.kind = "loginUser"
    /\ IF t.fres = "true"
         THEN /\ th' = Replace(t, Awaits(t, "me", t.gen))
              /\ UNCHANGED <<slices, last>>
         ELSE /\ Dispatch([Store EXCEPT !.login =
                    login_rejected(login, LoginFailedMessage)],
                    Rejected(t, t.status))
              /\ th' = th \ {t}

\* loginUser after await getCurrentUserApi: returns res.data, or rejects
loginUser_afterGetCurrentUserApi(t, status) ==
    /\ t.kind = "loginUser"
    /\ t.pc = "me"
    /\ IF status = HttpOk
         THEN Dispatch([Store EXCEPT !.login = login_fulfilled(login, t.data)],
                       Fulfilled(t, t.data))
         ELSE Dispatch([Store EXCEPT !.login =
                    login_rejected(login, ErrorMessage(status, LoginFailedMessage))],
                    Rejected(t, status))
    /\ th' = th \ {t}
    /\ UNCHANGED <<session, issued, micro>>

(* -------------------- logoutUser and logoutAllDevices ----------------- *)
\* the flow slice a logout thunk's actions reduce into
SetFlow(st, kind, v) ==
    IF kind = "logoutUser" THEN [st EXCEPT !.logout = v]
    ELSE [st EXCEPT !.logoutAll = v]

Flow(kind) == IF kind = "logoutUser" THEN logout ELSE logoutAll

\* the fulfilled and rejected reducers of the thunk's slice
logoutFlow_fulfilled(kind, s, message) ==
    IF kind = "logoutUser" THEN logout_fulfilled(s, message)
    ELSE logoutAll_fulfilled(s, message)

logoutFlow_rejected(kind, s, payload) ==
    IF kind = "logoutUser" THEN logout_rejected(s, payload)
    ELSE logoutAll_rejected(s, payload)

\* logoutUser after await logoutApi(): on success it dispatches
\* clearLoginState() and fetchCurrentUser("logoutThunk") and awaits the
\* latter; on error it rejects.  logoutAllDevices is the same code on the
\* logoutAll slice.
logoutUser_afterLogoutApi(t, status) ==
    /\ t.kind \in {"logoutUser", "logoutAllDevices"}
    /\ t.pc = "post"
    /\ IF status = HttpOk
         THEN /\ Dispatch(fetchCurrentUser_pending(
                    [Store EXCEPT !.login = clearLoginState(login)]), FetchPending)
              /\ th' = Replace(t, [Awaits(t, "fetch", issued + 1)
                                      EXCEPT !.msg = ServerLogoutMessage])
              /\ issued' = issued + 1
         ELSE /\ Dispatch(SetFlow(Store, t.kind,
                    logoutFlow_rejected(t.kind, Flow(t.kind),
                        ErrorMessage(status, FallbackMessage(t.kind)))),
                    Rejected(t, status))
              /\ th' = th \ {t}
              /\ issued' = issued
    /\ UNCHANGED <<session, micro>>

\* history: fetchCurrentUser u was dispatched before logout thunk t, which
\* completes now
Voided(u, t) ==
    IF u.pc = "fetch" /\ u.gen <= t.start THEN [u EXCEPT !.voided = TRUE] ELSE u

\* logoutUser after the nested fetchCurrentUser: unwrap() throws the
\* rejection's payload (false), which the catch turns into the fallback
\* message; otherwise the thunk returns response.data
logoutUser_afterFetchCurrentUser(t) ==
    /\ t.kind \in {"logoutUser", "logoutAllDevices"}
    /\ IF t.fres = "rejected"
         THEN Dispatch(SetFlow(Store, t.kind,
                    logoutFlow_rejected(t.kind, Flow(t.kind),
                                        FallbackMessage(t.kind))),
                    Rejected(t, t.status))
         ELSE Dispatch(SetFlow(Store, t.kind,
                    logoutFlow_fulfilled(t.kind, Flow(t.kind), t.msg)),
                    Fulfilled(t, NoUser))
    /\ th' = {Voided(u, t) : u \in th \ {t}}

(* ---- signupUser, verifyAccount, requestPasswordReset, confirm... ----- *)
\* the thunk of a flow after its await: return response.data, or
\* rejectWithValue(error.response?.data?.error || fallback)
flowThunk_afterApi(t, status) ==
    /\ t.kind \in FlowThunks
    /\ t.pc = "post"
    /\ LET f == FlowOf(t.kind) IN
         IF status = HttpOk
           THEN /\ SetSlice(f, flow_fulfilled(Slice(f), ServerFlowMessage))
                /\ last' = Fulfilled(t, NoUser)
           ELSE /\ SetSlice(f, flow_rejected(Slice(f),
                                 ErrorMessage(status, FlowFailedMessage(f))))
                /\ last' = Rejected(t, status)
    /\ th' = th \ {t}
    /\ UNCHANGED <<slices, session, issued, micro, localError, password, passwordStrength>>

(* ------------------------------ scheduling ---------------------------- *)
\* the response (or the network failure) of a request reaches the thunk
\* that awaits it
Deliver(t) ==
    /\ TaskTurn
    /\ InFlight(t)
    /\ \E status \in Responses(t) :
         \/ /\ \/ FetchCurrentUserSettles(t, status)
               \/ loginUser_afterLoginApi(t, status)
               \/ loginUser_afterGetCurrentUserApi(t, status)
               \/ logoutUser_afterLogoutApi(t, status)
            /\ UNCHANGED <<flowSlices, localError, password, passwordStrength>>
         \/ flowThunk_afterApi(t, status)
    /\ UNCHANGED <<dispatched, boot, route, screen, guardImpl>>

\* the thunk awaiting a nested fetchCurrentUser continues, after React has
\* rendered the store the fetch left (the render of a navigation that this
\* render requested is a later task)
Resume(t) ==
    /\ micro = t.id
    /\ t.pc = "resume"
    /\ ~NeedsCommit \/ Navigating
    /\ \/ loginUser_afterFetchCurrentUser(t)
       \/ logoutUser_afterFetchCurrentUser(t)
    /\ micro' = 0
    /\ UNCHANGED <<session, dispatched, issued, boot, route, screen, guardImpl>>
    /\ UNCHANGED <<flowSlices, localError, password, passwordStrength>>

Next ==
    \/ ReactCommit
    \/ AppUseEffect
    \/ MountDone
    \/ \E cred \in Credentials : handleSubmit(cred)
    \/ handleClear
    \/ handleLogout
    \/ handleLogoutAll
    \/ \E cred \in Credentials, pwd \in Passwords :
          \E confirmPassword \in {pwd, <<>>} :
             SignupForm_handleSubmit(cred, pwd, confirmPassword)
    \/ \E f \in Flows, cred \in Credentials : Flow_handleSubmit(f, cred)
    \/ \E f \in Flows : Flow_handleClear(f)
    \/ \E t \in th : ServerHandle(t)
    \/ \E t \in th : Deliver(t)
    \/ \E t \in th : Resume(t)

Spec == Init /\ [][Next]_vars

\* The password field and its meter: the application starts, and on the
\* signup page the user types, pastes and clears passwords.  No form is
\* submitted.
PwdNext ==
    \/ ReactCommit
    \/ AppUseEffect
    \/ MountDone
    \/ \E value \in PasswordInputs : handlePasswordChange(value)
    \/ \E f \in Flows : Flow_handleClear(f)
    \/ \E t \in th : ServerHandle(t)
    \/ \E t \in th : Deliver(t)

PwdSpec == Init /\ [][PwdNext]_vars

(* ================================ claims ============================== *)
\* the protected children are what the guard renders, or what is on screen
\* once React has nothing left to commit
ChildrenRendered ==
    \/ route = "/dashboard" /\ ProtectedRoute(currentUser) = "children"
    \/ screen = "dashboard" /\ ~NeedsCommit

\* C1: in every reachable state ProtectedRoute (either variant) renders its
\* protected children only when currentUser.isAuthenticated is true and
\* currentUser.loading is false; never while isAuthenticated is null
\* (Unknown) or loading is true (Pending).
C1_ChildrenOnlyWhenAuthenticated ==
    /\ \A r \in {renderProtectedContent(currentUser),
                  renderProtectedContentNullAware(currentUser)} :
           r = "children" =>
              currentUser.isAuthenticated = "true" /\ ~currentUser.loading
    /\ ChildrenRendered =>
           /\ currentUser.isAuthenticated = "true"
           /\ ~currentUser.loading

\* C1's case: the dashboard is on screen behind the guard, and a
\* fetchCurrentUser has settled
C1_Witness ==
    /\ screen = "dashboard"
    /\ ChildrenRendered
    /\ last.type = "fetchCurrentUser/fulfilled"

\* C2: while at least one fetchCurrentUser request is in flight, including
\* when two overlap and one of them has resolved, ProtectedRoute does not
\* render the protected children.
C2_NoChildrenWhileFetchInFlight ==
    PendingFetches # {} => ~ChildrenRendered

\* C3: when loginUser completes successfully (POST /auth/login and the
\* follow-up /auth/me both succeeded), currentUser.isAuthenticated is true
\* and login.user is the identity the server returned.
C3_LoginEndsAuthenticated ==
    last.type = "loginUser/fulfilled" =>
        /\ currentUser.isAuthenticated = "true"
        /\ login.user = last.user

\* the completion of a logout thunk
LogoutCompletions ==
    {"logoutUser/fulfilled", "logoutUser/rejected",
     "logoutAllDevices/fulfilled", "logoutAllDevices/rejected"}

\* C4: when logoutUser or logoutAllDevices completes after its POST
\* succeeded on the server, currentUser.isAuthenticated is false and the
\* login slice is idle (loading false, error null, user null,
\* isAuthenticated false).
C4_LogoutEndsUnauthenticated ==
    (last.type \in LogoutCompletions /\ last.posted) =>
        /\ currentUser.isAuthenticated = "false"
        /\ login = loginInitialState

\* C5: when logoutUser or logoutAllDevices is rejected because its request
\* failed, currentUser.isAuthenticated is not true and the guard does not
\* render the protected children.
C5_FailedLogoutEndsUnauthenticated ==
    (last.type \in {"logoutUser/rejected", "logoutAllDevices/rejected"}
        /\ ~last.posted) =>
        /\ currentUser.isAuthenticated # "true"
        /\ ProtectedRoute(currentUser) # "children"

\* C6: session verification is single-flight: at most one GET /auth/me of
\* fetchCurrentUser is in flight at any time.
C6_SingleFlight ==
    Cardinality(PendingFetches) <= 1

\* fetchCurrentUser t settles in this step
Settles(t) ==
    /\ t \in PendingFetches
    /\ \A u \in th' : u.id = t.id => u.pc # "fetch"

\* a fetchCurrentUser issued after t has already settled
Stale(t) ==
    \E g \in (t.gen + 1)..issued : \A u \in PendingFetches : u.gen # g

\* C7: the result of a fetchCurrentUser that arrives after the result of a
\* later-issued one is discarded: it leaves currentUser.isAuthenticated as
\* the later call set it.
C7_StaleFetchDiscarded ==
    [][\A t \in th : (Settles(t) /\ Stale(t)) =>
            currentUser'.isAuthenticated = currentUser.isAuthenticated]_vars

\* C8: once a logout whose POST succeeded has completed, the response of a
\* fetchCurrentUser issued before that logout started does not set
\* currentUser.isAuthenticated to true.
C8_LogoutVoidsEarlierFetch ==
    (last.type = "fetchCurrentUser/fulfilled" /\ last.voided) =>
        currentUser.isAuthenticated # "true"

\* C9: one application start triggers session verification once: App's
\* effect has at most one fetchCurrentUser outstanding even when the effect
\* runs twice.
C9_VerifiedOncePerStart ==
    Cardinality({t \in th : t.kind = "fetchCurrentUser"}) <= 1

\* C10: a session check that fails without a response (network error) does
\* not set currentUser.isAuthenticated to false.
C10_FailedCheckNotUnauthenticated ==
    (last.type = "fetchCurrentUser/rejected" /\ last.status = HttpNoResponse) =>
        currentUser.isAuthenticated # "false"

\* C11: the guard is a total function of the session status: the loader
\* while loading or while isAuthenticated is null, a redirect to /login when
\* isAuthenticated is false, the children when it is true; in particular
\* isAuthenticated null with loading false gives the loader, not a redirect.
C11_GuardTotal ==
    route = "/dashboard" =>
      ProtectedRoute(currentUser) =
        IF currentUser.loading \/ currentUser.isAuthenticated = Null
          THEN "loader"
        ELSE IF currentUser.isAuthenticated = "false" THEN "redirect"
        ELSE "children"

\* C12: on a start on the protected route, the guard does not leave the
\* route (redirect to /login) before a fetchCurrentUser has settled, i.e.
\* while currentUser.isAuthenticated is still null.
C12_NoRedirectBeforeFirstResult ==
    [][(route = "/dashboard" /\ currentUser.isAuthenticated = Null)
          => route' = "/dashboard"]_vars

\* React commits what it has to render, effects run, the server answers a
\* request that reached it, a request ends with its response or a network
\* error, and a continuation that is ready runs
LiveCap == dispatched' <= MaxLiveThunks

\* Next, within MaxLiveThunks
LiveNext ==
    \/ ReactCommit
    \/ AppUseEffect /\ LiveCap
    \/ MountDone
    \/ \E cred \in Credentials : handleSubmit(cred) /\ LiveCap
    \/ handleClear
    \/ handleLogout /\ LiveCap
    \/ handleLogoutAll /\ LiveCap
    \/ \E cred \in Credentials, pwd \in Passwords :
          \E confirmPassword \in {pwd, <<>>} :
             SignupForm_handleSubmit(cred, pwd, confirmPassword) /\ LiveCap
    \/ \E f \in Flows, cred \in Credentials : Flow_handleSubmit(f, cred) /\ LiveCap
    \/ \E f \in Flows : Flow_handleClear(f)
    \/ \E t \in th : ServerHandle(t)
    \/ \E t \in th : Deliver(t)
    \/ \E t \in th : Resume(t)

LiveSpec ==
    /\ Init /\ [][LiveNext]_vars
    /\ WF_vars(ReactCommit)
    /\ WF_vars((AppUseEffect /\ LiveCap) \/ MountDone)
    /\ WF_vars(\E t \in th : ServerHandle(t))
    /\ WF_vars(\E t \in th : Deliver(t))
    /\ WF_vars(\E t \in th : Resume(t))

\* C13: cold start on the protected route without a session cookie (and
\* none is established later): the start-up fetchCurrentUser is answered
\* negatively, the route eventually becomes /login and stays there, and
\* the protected children are never rendered.
C13_ColdStartRedirects ==
    (route = "/dashboard" /\ boot = "render" /\ [](session = NoUser))
        => (<>[](route = "/login") /\ [](screen # "dashboard"))

\* C13's case: the null-aware guard has redirected to /login after the
\* server's negative answer
C13_Witness ==
    /\ guardImpl = "ProtectedRouteNullAware"
    /\ session = NoUser
    /\ route = "/login"
    /\ screen = "none"
    /\ last.type = "fetchCurrentUser/rejected"
    /\ last.status = HttpError
    /\ currentUser.isAuthenticated = "false"

FetchSettledTypes == {"fetchCurrentUser/fulfilled", "fetchCurrentUser/rejected"}

FetchTypes == FetchSettledTypes \cup {"fetchCurrentUser/pending"}

\* C14: currentUser.isAuthenticated starts as null, leaves null only when a
\* fetchCurrentUser settles, and once it is not null it never is null
\* again.
C14_NeverBackToUnknown ==
    /\ currentUser.isAuthenticated = Null
    /\ [][/\ currentUser.isAuthenticated # Null
               => currentUser'.isAuthenticated # Null
          /\ (currentUser.isAuthenticated = Null
                 /\ currentUser'.isAuthenticated # Null)
               => last'.type \in FetchSettledTypes]_vars

\* C14's case: a later fetchCurrentUser is pending after the status has
\* left null
C14_Witness ==
    /\ last.type = "fetchCurrentUser/pending"
    /\ currentUser.loading
    /\ currentUser.isAuthenticated # Null

\* C15: the three flags agree: none of currentUser.isAuthenticated,
\* oauth2.isAuthenticated and login.isAuthenticated is true while another
\* is false.
C15_FlagsAgree ==
    LET flags == {currentUser.isAuthenticated, Tri(oauth2.isAuthenticated),
                  Tri(login.isAuthenticated)}
    IN  ~("true" \in flags /\ "false" \in flags)

\* C16: the currentUser slice changes only in a step that dispatches a
\* fetchCurrentUser action; every step whose action belongs to the login,
\* logout, oauth2, signup, verifyAccount or password-reset flows leaves
\* currentUser unchanged.
C16_OnlyVerifierWritesCurrentUser ==
    [][/\ currentUser' # currentUser => last'.type \in FetchTypes
       /\ (last' # last /\ last'.type \notin FetchTypes)
            => currentUser' = currentUser]_vars

\* C16's case: an action of the login flow has been reduced while the
\* session status was already set
C16_Witness ==
    /\ last.type = "loginUser/rejected"
    /\ currentUser.isAuthenticated = "true"

\* the state of every flow, by store key
FlowStates ==
    [login |-> login, logout |-> logout, logoutAll |-> logoutAll,
     signup |-> signup, verifyAccount |-> verifyAccount,
     passwordResetRequest |-> passwordResetRequest,
     passwordResetConfirm |-> passwordResetConfirm]

\* the store key of the flow a thunk belongs to
OwnFlow(kind) ==
    IF kind = "loginUser" THEN "login"
    ELSE IF kind = "logoutUser" THEN "logout"
    ELSE IF kind = "logoutAllDevices" THEN "logoutAll"
    ELSE FlowOf(kind)

\* C17: no flow changes the state of a different flow: the step a flow's
\* thunk takes when its own request returns changes no other flow's slice.
C17_FlowsFramed ==
    [][\A t \in th :
          (t.kind # "fetchCurrentUser" /\ t.pc = "post" /\ t \notin th')
            => \A g \in DOMAIN FlowStates \ {OwnFlow(t.kind)} :
                  FlowStates'[g] = FlowStates[g]]_vars

\* a confirmPasswordReset thunk is dispatched, answered or completed
ConfirmStep ==
    \E t \in th \cup th' :
        t.kind = "confirmPasswordReset" /\ ~(t \in th /\ t \in th')

\* C18: a confirmPasswordReset that the server rejects ends with
\* passwordResetConfirm.error set and loading false, and no step of the
\* attempt changes currentUser or any other flow's slice.
C18_RejectedConfirmIsLocal ==
    [][ConfirmStep =>
          /\ UNCHANGED <<slices, signup, verifyAccount, passwordResetRequest>>
          /\ (\E t \in th \ th' : t.net = "answered" /\ t.status = HttpError
                                     /\ last'.status = HttpError)
               => /\ passwordResetConfirm'.error = ServerErrorMessage
                  /\ ~passwordResetConfirm'.loading
                  /\ passwordResetConfirm'.successMessage
                        = passwordResetConfirm.successMessage]_vars

\* C18's case: the server has rejected a confirmation while the session
\* status was set
C18_Witness ==
    /\ last.type = "confirmPasswordReset/rejected"
    /\ last.status = HttpError
    /\ passwordResetConfirm.error = ServerErrorMessage
    /\ currentUser.isAuthenticated # Null

\* C19: right after a flow's pending action the flow is loading with no
\* error and no result of an earlier attempt: successMessage is null, and
\* for login user is null and isAuthenticated is false.
C19_PendingClearsPrevious ==
    /\ last.type = "loginUser/pending" =>
          /\ login.loading /\ login.error = Null
          /\ login.user = NoUser /\ ~login.isAuthenticated
    /\ last.type = "logoutUser/pending" =>
          logout = [loading |-> TRUE, error |-> Null, successMessage |-> Null]
    /\ last.type = "logoutAllDevices/pending" =>
          logoutAll = [loading |-> TRUE, error |-> Null, successMessage |-> Null]
    /\ \A f \in Flows : last.type = FlowThunk(f) \o "/pending" =>
          Slice(f) = [loading |-> TRUE, error |-> Null, successMessage |-> Null]

\* C20: no flow slice shows both outcomes: error and the success result
\* (successMessage, or login.isAuthenticated / login.user) are never both
\* set.
C20_OneOutcome ==
    /\ ~(login.error # Null /\ (login.isAuthenticated \/ login.user # NoUser))
    /\ \A s \in {logout, logoutAll, signup, verifyAccount,
                  passwordResetRequest, passwordResetConfirm} :
          ~(s.error # Null /\ s.successMessage # Null)

\* C21: a flow's clear action returns the flow to Idle from any state: the
\* cleared slice equals the slice's initial state (loading false, error
\* null, no result), and clearing twice gives the same state as clearing
\* once.
C21_ClearResets ==
    /\ clearLoginState(login) = loginInitialState
    /\ clearLoginState(clearLoginState(login)) = clearLoginState(login)
    /\ clearLogoutState(logout) = logoutInitialState
    /\ clearLogoutState(clearLogoutState(logout)) = clearLogoutState(logout)
    /\ clearLogoutAllState(logoutAll) = logoutAllInitialState
    /\ clearLogoutAllState(clearLogoutAllState(logoutAll))
          = clearLogoutAllState(logoutAll)
    /\ \A f \in Flows :
          /\ clearFlowState(Slice(f)) = flowInitialState
          /\ clearFlowState(clearFlowState(Slice(f))) = clearFlowState(Slice(f))
    /\ \A f \in Flows \ {"verifyAccount"} :
          last.type = f \o "/clear" => Slice(f) = flowInitialState
    /\ last.type = "verifyAccount/clearVerifyAccountState"
          => verifyAccount = flowInitialState

\* C21's case: the confirm form has been cleared while its request was
\* pending, and the login slice holds the result of a session check
C21_Witness ==
    /\ last.type = "passwordResetConfirm/clear"
    /\ passwordResetConfirm = flowInitialState
    /\ \E t \in th : t.kind = "confirmPasswordReset"
    /\ login # loginInitialState

\* LoginPage is entered: React mounts it for /login
LoginPageEntered ==
    /\ route = "/login"
    /\ screen \notin {"loginLoading", "loginForm"}
    /\ screen' \in {"loginLoading", "loginForm"}

\* SignupPage is entered
SignupPageEntered ==
    /\ route = "/signup"
    /\ screen # "signup"
    /\ screen' = "signup"

\* C22: on entry to the Login or Signup screen nothing of a previous visit
\* is left: when LoginPage is entered login.error is null and the form does
\* not show an earlier attempt's success flag, and when SignupPage is
\* entered signup.error and signup.successMessage are null.
C22_EntryResets ==
    [][/\ LoginPageEntered =>
            /\ login'.error = Null
            /\ screen' = "loginForm" => ~login'.isAuthenticated
       /\ SignupPageEntered =>
            /\ signup'.error = Null
            /\ signup'.successMessage = Null]_vars

\* the action with which thunk t completes
Completes(t) ==
    /\ t \in th
    /\ t \notin th'
    /\ last'.type \in {t.kind \o "/fulfilled", t.kind \o "/rejected"}

\* C23: if a flow is reset while its request is pending (by the unmount
\* cleanup or by Clear), the late fulfilled / rejected result is not
\* applied: the flow stays idle with no error and no success message.
C23_LateResultDropped ==
    [][\A t \in th : Completes(t) =>
          /\ (t.kind \in FlowThunks /\ Slice(FlowOf(t.kind)) = flowInitialState)
                => Slice(FlowOf(t.kind))' = flowInitialState
          /\ (t.kind = "loginUser" /\ login = loginInitialState)
                => login' = loginInitialState]_vars

\* C24: whenever login.isAuthenticated is true a resolved identity is
\* stored (login.user is not null), also when the flag was set by a
\* fetchCurrentUser result at start-up or after a logout.
C24_AuthenticatedHasIdentity ==
    login.isAuthenticated => login.user # NoUser

\* C25: a client-side validation error is never sent to the server: a
\* signupUser is dispatched only with a password that has at least 8
\* characters, an uppercase letter, a digit and a special character and
\* that equals the confirmation; a submission that fails validation issues
\* no request and leaves the signup slice unchanged.
C25_ValidationErrorNotSent ==
    [][/\ \A t \in th' \ th : t.kind = "signupUser" =>
            /\ Len(t.password) >= 8
            /\ \E i \in 1..Len(t.password) : t.password[i] \in UpperChars
            /\ \E i \in 1..Len(t.password) : t.password[i] \in NumberChars
            /\ \E i \in 1..Len(t.password) : t.password[i] \in SpecialChars
            /\ t.password = t.confirmPassword
       /\ (localError' # localError /\ localError' # "")
            => UNCHANGED <<signup, th, dispatched, last>>]_vars

\* C25's case: after a signup that the server accepted, a submission whose
\* confirmation differs has been refused by the form
C25_Witness ==
    /\ localError = PasswordsDoNotMatchMessage
    /\ last.type = "signupUser/fulfilled"
    /\ signup.successMessage = ServerFlowMessage

\* the generic message of a thunk's flow
GenericMessage(kind) ==
    IF kind \in FlowThunks THEN FlowFailedMessage(FlowOf(kind))
    ELSE FallbackMessage(kind)

\* C26: a request rejected by the server with an error payload stores the
\* server's message in the error of the originating flow and in no other
\* flow, and a request with no response stores that flow's generic
\* message, so that a failed flow always has an error; for loginUser and
\* logoutUser also when it is their nested session check that fails.
C26_ErrorIsServersMessage ==
    [][\A t \in th : (t.kind # "fetchCurrentUser" /\ Completes(t)
                         /\ last'.type = t.kind \o "/rejected") =>
          /\ last'.status = HttpError =>
                FlowStates'[OwnFlow(t.kind)].error = ServerErrorMessage
          /\ last'.status = HttpNoResponse =>
                FlowStates'[OwnFlow(t.kind)].error = GenericMessage(t.kind)
          /\ FlowStates'[OwnFlow(t.kind)].error # Null
          /\ \A g \in DOMAIN FlowStates \ {OwnFlow(t.kind)} :
                FlowStates'[g].error = FlowStates[g].error]_vars

\* thunk t leaves the await it is suspended at
Acts(t) ==
    /\ t \in th
    /\ \A u \in th' : u.id = t.id => u.pc # t.pc

\* C27: logoutUser and logoutAllDevices differ only in their endpoint (and
\* in the wording of their generic message): the reducers of the two
\* slices are the same functions, and each step of a thunk of either kind
\* gives the login slice, the currentUser slice and the thunk's own flow
\* slice that logoutUser's code gives from that state and server answer.
C27_LogoutAllLikeLogout ==
    [][/\ \A s \in {logout, logoutAll} :
            /\ logoutAll_pending(s) = logout_pending(s)
            /\ clearLogoutAllState(s) = clearLogoutState(s)
            /\ logoutAll_fulfilled(s, ServerLogoutMessage)
                  = logout_fulfilled(s, ServerLogoutMessage)
            /\ \A p \in {ServerErrorMessage, LogoutFailedMessage,
                         LogoutAllFailedMessage} :
                  logoutAll_rejected(s, p) = logout_rejected(s, p)
       /\ \A t \in th :
            (t.kind \in {"logoutUser", "logoutAllDevices"} /\ Acts(t)) =>
              /\ (t.pc = "post" /\ \E u \in th' : u.id = t.id) =>
                    /\ login' = clearLoginState(login)
                    /\ currentUser' = currentUser_pending(currentUser)
                    /\ Flow(t.kind)' = Flow(t.kind)
              /\ (t.pc = "post" /\ \A u \in th' : u.id # t.id) =>
                    /\ login' = login
                    /\ currentUser' = currentUser
                    /\ Flow(t.kind)' =
                          logout_rejected(Flow(t.kind),
                              ErrorMessage(last'.status, GenericMessage(t.kind)))
              /\ t.pc = "resume" =>
                    /\ login' = login
                    /\ currentUser' = currentUser
                    /\ Flow(t.kind)' =
                          IF t.fres = "rejected"
                            THEN logout_rejected(Flow(t.kind),
                                                 GenericMessage(t.kind))
                            ELSE logout_fulfilled(Flow(t.kind), t.msg)]_vars

\* C27's case: both thunks have run, logoutAllDevices has completed after
\* its POST succeeded and logoutUser has been refused
C27_Witness ==
    /\ last.type = "logoutAllDevices/rejected"
    /\ last.posted
    /\ logoutAll.error = LogoutAllFailedMessage
    /\ logout.error = ServerErrorMessage

\* C28: logoutUser (and logoutAllDevices) reaches Success with a success
\* message only if both its logout request and the follow-up session
\* check are fulfilled; when the logout request succeeds and the follow-up
\* check is rejected, the flow ends in Failure with its generic error and
\* no success message, the login slice is reset and
\* currentUser.isAuthenticated is false.
C28_LogoutSuccessNeedsCheck ==
    [][\A t \in th :
          (t.kind \in {"logoutUser", "logoutAllDevices"} /\ Completes(t)) =>
            /\ last'.type = t.kind \o "/fulfilled" =>
                  /\ t.pc = "resume" /\ t.msg # Null /\ t.fres = "true"
                  /\ Flow(t.kind)' = [loading |-> FALSE, error |-> Null,
                                      successMessage |-> ServerLogoutMessage]
            /\ Flow(t.kind)'.successMessage # Null
                  => last'.type = t.kind \o "/fulfilled"
            /\ (t.pc = "resume" /\ t.fres = "rejected") =>
                  /\ Flow(t.kind)' = [loading |-> FALSE,
                                      error |-> GenericMessage(t.kind),
                                      successMessage |-> Null]
                  /\ login' = loginInitialState
                  /\ currentUser'.isAuthenticated = "false"]_vars

\* the login side navigates to /dashboard: LoginPage on
\* oauth2.isAuthenticated, or LoginForm's success effect on
\* login.isAuthenticated
LoginNavigates ==
    \/ LoginPage(oauth2) = "navigate"
    \/ LoginPage(oauth2) = "form" /\ login.isAuthenticated

\* C29: the login screen and the route guard never bounce the user between
\* each other: in no reachable state does the login side navigate to
\* /dashboard while ProtectedRoute redirects to /login.
C29_NoBounce ==
    ~(LoginNavigates /\ renderProtectedContent(currentUser) = "redirect")

\* C30: a failed login leaves no authenticated session status behind: when
\* loginUser ends in Failure, currentUser.isAuthenticated has not been
\* changed to true by that attempt, also when POST /auth/login and the
\* nested session check succeeded and the second GET /auth/me failed.
C30_FailedLoginNotAuthenticated ==
    [][\A t \in th :
          (t.kind = "loginUser" /\ Completes(t)
              /\ last'.type = "loginUser/rejected") =>
            /\ login'.error # Null
            /\ ~login'.isAuthenticated
            /\ ~(/\ t.pc = "me"
                 /\ t.before # "true"
                 /\ currentUser'.isAuthenticated = "true")]_vars

\* C31: an Authenticated status carries no error: in every reachable state
\* currentUser.isAuthenticated true implies currentUser.error is null, also
\* when two fetchCurrentUser requests overlap and one is rejected before
\* the other is fulfilled.
C31_AuthenticatedHasNoError ==
    currentUser.isAuthenticated = "true" => currentUser.error = Null

\* the thunks a button or form of the user interface starts
TriggeredThunks == {"loginUser", "logoutUser", "logoutAllDevices"} \cup FlowThunks

\* C32: while a flow's request is Pending the user interface cannot start
\* a second request of the same flow: at most one request per flow is in
\* flight at any time.
C32_OneRequestPerFlow ==
    \A kind \in TriggeredThunks :
        Cardinality({t \in th : t.kind = kind}) <= 1

\* this step mounts DashboardPage: ProtectedRoute renders its children on
\* /dashboard and DashboardPage's mount effect clears both logout slices
DashboardEntered ==
    /\ route = "/dashboard"
    /\ screen # "dashboard"
    /\ ProtectedRoute(currentUser) = "children"
    /\ logout' = clearLogoutState(logout)
    /\ logoutAll' = clearLogoutAllState(logoutAll)
    /\ last'.type = "logoutAll/clearLogoutAllState"

\* C33: logout messages left over from a previous session have no effect
\* when the dashboard is entered again: entering the dashboard never
\* redirects to /login, whatever successMessage the logout and logoutAll
\* slices still hold.
C33_LeftoverMessageIgnored ==
    [][DashboardEntered => route' = "/dashboard"]_vars

\* the thunks that set a loading flag
ThunkKinds == TriggeredThunks \cup {"fetchCurrentUser"}

\* the loading flag of the slice that the thunk's pending action sets
LoadingOf(kind) ==
    IF kind = "fetchCurrentUser" THEN currentUser.loading
    ELSE IF kind = "loginUser" THEN login.loading
    ELSE IF kind \in FlowThunks THEN Slice(FlowOf(kind)).loading
    ELSE Flow(kind).loading

\* C34: when every request gets a response or an error, every thunk that
\* was dispatched (and so made its flow Pending) eventually settles
\* (fulfilled or rejected), loginUser and logoutUser with their nested
\* fetchCurrentUser included; every loading flag that is true eventually
\* is false again, also the currentUser slice's when verifications
\* overlap; and a loading flag that is false becomes true only by the
\* pending action of the next attempt.
C34_EveryFlowTerminates ==
    /\ \A i \in 1..MaxThunks :
          (\E t \in th : t.id = i) ~> (\A t \in th : t.id # i)
    /\ \A kind \in ThunkKinds : LoadingOf(kind) ~> ~LoadingOf(kind)
    /\ [][\A kind \in ThunkKinds :
             (~LoadingOf(kind) /\ LoadingOf(kind)')
                => last'.type = kind \o "/pending"]_vars

\* C34's case: a loginUser that waited for its nested fetchCurrentUser has
\* been fulfilled, nothing is in flight and the loading flags are false
C34_Witness ==
    /\ last.type = "loginUser/fulfilled"
    /\ th = {}
    /\ issued >= 1
    /\ ~login.loading
    /\ ~currentUser.loading

\* the four rules in the order validatePassword reports them, and the
\* message of each
RuleOrder == <<"lengthRule", "upperRule", "numberRule", "specialRule">>

RuleMessage(rule) ==
    IF rule = "lengthRule" THEN LengthRuleMessage
    ELSE IF rule = "upperRule" THEN UpperRuleMessage
    ELSE IF rule = "numberRule" THEN NumberRuleMessage
    ELSE SpecialRuleMessage

\* C35: the password meter and the signup validation agree, for the
\* password in the field: the meter shows "" for the empty password, "Weak"
\* when at most two of the four rules pass, "Medium" when exactly three
\* pass and "Strong" when all four pass; validatePassword returns null
\* exactly when the meter shows "Strong", and otherwise the message of the
\* first failing rule in the order length, uppercase, number, special
\* character.
C35_MeterAgreesWithValidation ==
    LET rules == checkRules(password)
        passed == Cardinality({i \in 1..4 : rules[RuleOrder[i]]})
        message == validatePassword(password) IN
      /\ passwordStrength =
            IF password = <<>> THEN ""
            ELSE IF passed <= 2 THEN "Weak"
            ELSE IF passed = 3 THEN "Medium"
            ELSE "Strong"
      /\ message = Null <=> passwordStrength = "Strong"
      /\ message # Null =>
            \E i \in 1..4 :
               /\ ~rules[RuleOrder[i]]
               /\ \A j \in 1..(i - 1) : rules[RuleOrder[j]]
               /\ message = RuleMessage(RuleOrder[i])

\* C35's case: a password of the minimum length with an uppercase letter
\* and a number and no special character is in the field; the meter shows
\* "Medium"
C35_Witness ==
    /\ Len(password) = MinPasswordLength
    /\ checkRules(password) =
          [lengthRule |-> TRUE, upperRule |-> TRUE, numberRule |-> TRUE,
           specialRule |-> FALSE]
    /\ passwordStrength = "Medium"
    /\ validatePassword(password) = SpecialRuleMessage

====
